---- MODULE Spec2Model ----
(***************************************************************************)
(* A model of serp_audit_app_phase4.0.py: one Streamlit script that, on a  *)
(* form submission, validates the inputs, expands the keyword into five    *)
(* query variations, fetches a batched listings response (through a        *)
(* time-bounded cache), flattens it into rows, stores the table in the     *)
(* session, filters it, renders a CSV and optionally mails it.             *)
(*                                                                         *)
(* Strings are sequences of one-character strings.  JSON values are        *)
(* records tagged by t: "absent" (key not in the dict), "null", "str",     *)
(* "num", "dict", "list".  Ratings are counted in tenths (4.5 is 45).      *)
(***************************************************************************)
EXTENDS Integers, Sequences, FiniteSets, TLC

VARIABLES
    pc,               \* position of the script run
    keyword, city, state, email,   \* the form's values of the current run
    variations,       \* the five query strings (lines 91-97)
    response_json,    \* what fetch_audit_results returned (line 99)
    tasks,            \* response_json["tasks"] (line 101)
    results,          \* the rows format_results returned (line 102)
    raised,           \* the exception that ended the run, or "none"
    df,               \* the table of this run (lines 105-106)
    min_rating, has_website,       \* the sidebar widgets (lines 133-134)
    filtered_df,      \* lines 136-138
    csv_bytes,        \* line 144
    outcome,          \* the message the run ended with
    session_results,  \* st.session_state["results"]
    session_summary,  \* st.session_state["summary"]
    snapshot,         \* what the "Last Audit Snapshot" block rendered
    cache,            \* the st.cache_data store of fetch_audit_results
    now,              \* the clock, in seconds
    net_calls,        \* listings requests posted in this run
    last_request,     \* the body of the last listings request posted
    smtp_calls,       \* SMTP submissions attempted in this run
    served_from,      \* how this run got response_json: "none", "network", "cache"
    prior             \* the session's results and summary when the run began

vars == <<pc, keyword, city, state, email, variations, response_json, tasks,
          results, raised, df, min_rating, has_website, filtered_df, csv_bytes,
          outcome, session_results, session_summary, snapshot, cache, now,
          net_calls, last_request, smtp_calls, served_from, prior>>

----------------------------------------------------------------------------
(* Values *)

Absent == [t |-> "absent"]
None == [t |-> "null"]
NaN == [t |-> "nan"]
Str(s) == [t |-> "str", s |-> s]
Num(n) == [t |-> "num", n |-> n]
List(l) == [t |-> "list", l |-> l]

\* dict.get(key): the value, None when the key is absent
Get(v) == IF v.t = "absent" THEN None ELSE v

\* dict.get(key, default)
GetOr(v, default) == IF v.t = "absent" THEN default ELSE v

RECURSIVE Concat(_)
Concat(ss) == IF ss = <<>> THEN <<>> ELSE Head(ss) \o Concat(Tail(ss))

SeqsUpTo(S, n) == UNION {[1..k -> S] : k \in 0..n}

----------------------------------------------------------------------------
(* is_valid_email, lines 19-21: re.match(r'^[\w\.-]+@[\w\.-]+\.\w+$') *)

WordChars == {"a", "b", "c", "1", "_"}

IsWord(ch) == ch \in WordChars

IsLocalChar(ch) == IsWord(ch) \/ ch = "." \/ ch = "-"

\* $ matches at the end of the string and before a newline that ends it
EndsAt(s, n) == n = Len(s) \/ (n = Len(s) - 1 /\ s[Len(s)] = "\n")

is_valid_email(s) ==
    \E i \in 1..Len(s) : \E j \in 1..Len(s) : \E n \in 1..Len(s) :
        /\ s[i] = "@" /\ s[j] = "."
        /\ 1 < i /\ i + 1 < j /\ j < n /\ EndsAt(s, n)
        /\ \A k \in 1..(i - 1) : IsLocalChar(s[k])
        /\ \A k \in (i + 1)..(j - 1) : IsLocalChar(s[k])
        /\ \A k \in (j + 1)..n : IsWord(s[k])

----------------------------------------------------------------------------
(* The query variations, lines 91-97 *)

NearMe == <<" ", "n", "e", "a", "r", " ", "m", "e">>

\* a bug: the inputs are trimmed and equal queries are merged
Trim(x) == IF x # <<>> /\ x[Len(x)] = " " THEN SubSeq(x, 1, Len(x) - 1) ELSE x

ExpandNormalized(k, c, s) ==
    IF c = s
    THEN <<Trim(k), Trim(k) \o NearMe, Trim(k) \o <<" ">> \o c, Trim(k) \o <<" ">> \o c \o <<" ">> \o s>>
    ELSE <<Trim(k), Trim(k) \o NearMe, Trim(k) \o <<" ">> \o c, Trim(k) \o <<" ">> \o s,
           Trim(k) \o <<" ">> \o c \o <<" ">> \o s>>

Expand(k, c, s) ==
    << k,
       k \o NearMe,
       k \o <<" ">> \o c,
       k \o <<" ">> \o s,
       k \o <<" ">> \o c \o <<" ">> \o s >>

----------------------------------------------------------------------------
(* format_results, lines 67-82.  The result is [err, rows]: err is "none"  *)
(* or the exception that left the function, and then rows is empty.        *)

Ok(rows) == [err |-> "none", rows |-> rows]
Raise(e) == [err |-> e, rows |-> <<>>]

\* item.get("address_info", {}).get("address"), line 76
AddressOf(item) ==
    LET ai == GetOr(item.address_info, [t |-> "dict", address |-> Absent])
    IN  IF ai.t = "dict" THEN Ok(Get(ai.address))
        ELSE Raise("AttributeError:address_info")

\* item.get("site_links", {}).get("site_link"), line 78
WebsiteOf(item) ==
    LET sl == GetOr(item.site_links, [t |-> "dict", site_link |-> Absent])
    IN  IF sl.t = "dict" THEN Ok(Get(sl.site_link))
        ELSE Raise("AttributeError:site_links")

\* the dict literal of lines 73-81, its values evaluated in order
RowOf(item, i, vs) ==
    IF i > Len(vs) THEN Raise("IndexError:variations")
    ELSE IF AddressOf(item).err # "none" THEN Raise(AddressOf(item).err)
    ELSE IF WebsiteOf(item).err # "none" THEN Raise(WebsiteOf(item).err)
    ELSE Ok(<< [ Query |-> vs[i],
                 BusinessName |-> Get(item.title),
                 Address |-> AddressOf(item).rows,
                 Phone |-> Get(item.phone_number),
                 Website |-> WebsiteOf(item).rows,
                 Rating |-> Get(item.rating),
                 TotalReviews |-> Get(item.reviews_count) ] >>)

\* lines 70-71: the items of a task
ItemsOf(task) ==
    LET task_result == GetOr(task.result, List(<<[t |-> "dict", items |-> Absent]>>))
    IN  IF task_result.t = "null" \/ task_result.l = <<>> THEN Ok(<<>>)
        ELSE IF task_result.l[1].t # "dict" THEN Raise("AttributeError:result")
        ELSE LET items == GetOr(task_result.l[1].items, List(<<>>))
             IN  IF items.t = "list" THEN Ok(items.l)
                 ELSE Raise("TypeError:items")

\* lines 72-81: the rows of one task's items, appended in item order
RECURSIVE ItemRows(_, _, _)
ItemRows(items, i, vs) ==
    IF items = <<>> THEN Ok(<<>>)
    ELSE LET first == RowOf(Head(items), i, vs)
         IN  IF first.err # "none" THEN first
             ELSE LET rest == ItemRows(Tail(items), i, vs)
                  IN  IF rest.err # "none" THEN rest
                      ELSE Ok(first.rows \o rest.rows)

\* line 69: enumerate(tasks), from index i on (1-based here)
RECURSIVE TaskRows(_, _, _)
TaskRows(ts, i, vs) ==
    IF i > Len(ts) THEN Ok(<<>>)
    ELSE LET items == ItemsOf(ts[i])
         IN  IF items.err # "none" THEN Raise(items.err)
             ELSE LET mine == ItemRows(items.rows, i, vs)
                  IN  IF mine.err # "none" THEN mine
                      ELSE LET rest == TaskRows(ts, i + 1, vs)
                           IN  IF rest.err # "none" THEN rest
                               ELSE Ok(mine.rows \o rest.rows)

format_results(ts, vs) == TaskRows(ts, 1, vs)

----------------------------------------------------------------------------
(* pandas: the table of lines 105-106, the filter of lines 136-138 and the *)
(* CSV of line 144                                                         *)

Digits == <<"0", "1", "2", "3", "4", "5", "6", "7", "8", "9">>

IsDigit(ch) == \E d \in 1..10 : Digits[d] = ch

DigitVal(ch) == (CHOOSE d \in 1..10 : Digits[d] = ch) - 1

RECURSIVE IntVal(_)
IntVal(s) == IF s = <<>> THEN 0 ELSE IntVal(SubSeq(s, 1, Len(s) - 1)) * 10 + DigitVal(s[Len(s)])

\* a decimal literal, digits with at most one fraction digit, as tenths; NaN otherwise
ParseNumber(s) ==
    IF s # <<>> /\ \A k \in 1..Len(s) : IsDigit(s[k]) THEN Num(IntVal(s) * 10)
    ELSE IF /\ Len(s) >= 3 /\ s[Len(s) - 1] = "."
            /\ \A k \in (1..Len(s)) \ {Len(s) - 1} : IsDigit(s[k])
         THEN Num(IntVal(SubSeq(s, 1, Len(s) - 2)) * 10 + DigitVal(s[Len(s)]))
         ELSE NaN

\* pd.to_numeric(errors='coerce') on one cell, line 106
ToNumeric(cell) ==
    IF cell.t = "num" THEN cell
    ELSE IF cell.t = "str" THEN ParseNumber(cell.s)
    ELSE NaN

\* lines 105-106
DataFrame(rows) == [i \in 1..Len(rows) |-> [rows[i] EXCEPT !.Rating = ToNumeric(@)]]

\* a bug: > for >=
RatingAbove(row, r) == row.Rating.t = "num" /\ row.Rating.n > r

\* df['Rating'] >= min_rating, line 136: a comparison with NaN is False
RatingAtLeast(row, r) == row.Rating.t = "num" /\ row.Rating.n >= r

\* Website.notna() & (Website != ''), line 138
WebsitePresent(row) == row.Website.t # "null" /\ row.Website # Str(<<>>)

Filter(table, r, w) ==
    LET Keep(row) == RatingAtLeast(row, r) /\ (w => WebsitePresent(row))
    IN  SelectSeq(table, Keep)

RECURSIVE Decimal(_)
Decimal(n) == IF n < 10 THEN <<Digits[n + 1]>> ELSE Decimal(n \div 10) \o <<Digits[(n % 10) + 1]>>

\* a float column prints 4.5 as "4.5"
FloatText(n) == Decimal(n \div 10) \o <<".">> \o <<Digits[(n % 10) + 1]>>

\* one CSV field: a missing value prints as the empty field
Field(cell) ==
    IF cell.t = "str" THEN cell.s
    ELSE IF cell.t = "num" THEN FloatText(cell.n)
    ELSE <<>>

\* a column of integers that holds a missing value is a float column
CountField(cell, table) ==
    IF cell.t = "num" /\ \A i \in 1..Len(table) : table[i].TotalReviews.t = "num"
    THEN Decimal(cell.n)
    ELSE IF cell.t = "num" THEN Decimal(cell.n) \o <<".", "0">>
    ELSE Field(cell)

CsvHeader == <<"Query", "Business Name", "Address", "Phone", "Website", "Rating", "Total Reviews">>

\* to_csv(index=False), line 144: the header, then one line per row
to_csv(table) ==
    <<CsvHeader>> \o
    [i \in 1..Len(table) |->
        << table[i].Query, Field(table[i].BusinessName), Field(table[i].Address),
           Field(table[i].Phone), Field(table[i].Website), Field(table[i].Rating),
           CountField(table[i].TotalReviews, table) >>]

----------------------------------------------------------------------------
(* fetch_audit_results, lines 48-65, behind st.cache_data(ttl=3600) *)

TTL == 3600

Limit == 5

Location(c, s) == c \o <<",", " ">> \o s \o <<",", " ", "U", "n", "i", "t", "e", "d", " ", "S", "t", "a", "t", "e", "s">>

\* lines 50-53
batched_data(vs, c, s) ==
    [i \in 1..Len(vs) |-> [keyword |-> vs[i], location_name |-> Location(c, s), limit |-> Limit]]

\* a bug: the key leaves the variations out
CacheKeyLocationOnly(vs, c, s) == <<c, s>>

\* the cache hashes the call's arguments
CacheKey(vs, c, s) == <<vs, c, s>>

\* an entry is served while it is younger than the ttl
Fresh(entry) == now - entry.at < TTL

Hits(vs, c, s) == {e \in cache : e.key = CacheKey(vs, c, s) /\ Fresh(e)}

\* the call returned None (the request raised, line 65) or the JSON body
NoResponse == [t |-> "none"]
Body(tasks_value) == [t |-> "dict", tasks |-> tasks_value]

\* line 100: response_json and response_json.get("tasks")
HasTasks(r) == r.t = "dict" /\ r.tasks.t = "list" /\ r.tasks.l # <<>>

----------------------------------------------------------------------------
(* The responses and form values the runs are checked on *)

Item(title, address_info, phone_number, site_links, rating, reviews_count) ==
    [title |-> title, address_info |-> address_info, phone_number |-> phone_number,
     site_links |-> site_links, rating |-> rating, reviews_count |-> reviews_count]

AddressInfo(v) == [t |-> "dict", address |-> v]
SiteLinks(v) == [t |-> "dict", site_link |-> v]

TaskOf(items) == [result |-> List(<<[t |-> "dict", items |-> List(items)]>>)]

ItemFull == Item(Str(<<"A">>), AddressInfo(Str(<<"1">>)), Str(<<"5">>), SiteLinks(Str(<<"w">>)), Num(45), Num(12))
ItemBare == Item(Absent, Absent, Absent, Absent, Absent, Absent)
ItemLow == Item(Str(<<"B">>), AddressInfo(None), None, SiteLinks(Str(<<>>)), Str(<<"2", ".", "5">>), None)
ItemNoLinks == Item(Str(<<"C">>), Absent, Absent, None, Num(40), Absent)

TaskEmpty == TaskOf(<<>>)
TaskNoResult == [result |-> Absent]
TaskNullItems == [result |-> List(<<[t |-> "dict", items |-> None]>>)]

Responses ==
    { NoResponse,
      Body(Absent),
      Body(List(<<TaskEmpty, TaskNoResult, TaskEmpty, TaskEmpty, TaskEmpty>>)),
      Body(List(<<TaskOf(<<ItemFull, ItemBare>>), TaskEmpty, TaskEmpty, TaskEmpty, TaskEmpty>>)),
      Body(List(<<TaskEmpty, TaskOf(<<ItemLow>>), TaskOf(<<ItemFull>>)>>)),
      Body(List(<<TaskOf(<<ItemFull>>), TaskNullItems, TaskEmpty, TaskEmpty, TaskEmpty>>)),
      Body(List(<<TaskOf(<<ItemNoLinks>>), TaskEmpty, TaskEmpty, TaskEmpty, TaskEmpty>>)),
      Body(List(<<TaskEmpty, TaskEmpty, TaskEmpty, TaskEmpty, TaskEmpty, TaskOf(<<ItemFull>>)>>)) }

\* keyword, city, state
Forms ==
    { <<<<"p">>, <<"L">>, <<"C">>>>, <<<<"q">>, <<"L">>, <<"C">>>>,
      <<<<>>, <<"L">>, <<"C">>>>, <<<<"p">>, <<>>, <<"C">>>>, <<<<"p">>, <<"L">>, <<>>>> }
Emails == {<<>>, <<"a", "@", "b", ".", "c">>, <<"a", "@", "b">>, <<"a", "@", ".", "c">>}

\* the slider of line 133, in tenths
SliderMin == 10
SliderMax == 50
SliderDefault == 30

MaxTicks == 3
TickSeconds == 1800

----------------------------------------------------------------------------
(* The script run *)

NoValue == <<>>
Some(x) == <<x>>

Session == <<session_results, session_summary>>

\* between runs none of the script's names is bound
Unbound ==
    /\ keyword' = <<>> /\ city' = <<>> /\ state' = <<>> /\ email' = <<>>
    /\ variations' = <<>>
    /\ response_json' = NoResponse
    /\ tasks' = <<>>
    /\ results' = <<>>
    /\ raised' = "none"
    /\ df' = <<>>
    /\ min_rating' = SliderDefault
    /\ has_website' = FALSE
    /\ filtered_df' = <<>>
    /\ csv_bytes' = <<>>
    /\ outcome' = "none"
    /\ snapshot' = NoValue
    /\ net_calls' = 0
    /\ last_request' = <<>>
    /\ smtp_calls' = 0
    /\ served_from' = "none"
    /\ prior' = <<NoValue, NoValue>>

\* lines 33-36, and a process that has served no run yet
NoRunYet ==
    /\ response_json = NoResponse
    /\ raised = "none"
    /\ outcome = "none"
    /\ session_results = NoValue
    /\ session_summary = NoValue
    /\ snapshot = NoValue
    /\ cache = {}
    /\ now = 0
    /\ net_calls = 0
    /\ last_request = <<>>
    /\ smtp_calls = 0
    /\ served_from = "none"
    /\ prior = <<NoValue, NoValue>>

NoTable ==
    /\ results = <<>>
    /\ df = <<>>
    /\ min_rating = SliderDefault
    /\ has_website = FALSE
    /\ filtered_df = <<>>
    /\ csv_bytes = <<>>

Init ==
    /\ pc = "idle"
    /\ keyword = <<>> /\ city = <<>> /\ state = <<>> /\ email = <<>>
    /\ variations = <<>>
    /\ tasks = <<>>
    /\ NoTable
    /\ NoRunYet

\* a bug: the address is not checked
ValidateFieldsOnly(k, c, s, e) ==
    IF k = <<>> \/ c = <<>> \/ s = <<>> THEN "warn_fields" ELSE "none"

\* lines 85-88: the message of a rejected submission, "none" when it passes
Validate(k, c, s, e) ==
    IF k = <<>> \/ c = <<>> \/ s = <<>> THEN "warn_fields"
    ELSE IF e # <<>> /\ ~is_valid_email(e) THEN "warn_email"
    ELSE "none"

\* lines 84-89: the form is submitted
Submit ==
    /\ pc = "idle"
    /\ \E f \in Forms, e \in Emails :
          /\ keyword' = f[1] /\ city' = f[2] /\ state' = f[3] /\ email' = e
          /\ pc' = IF Validate(f[1], f[2], f[3], e) = "none" THEN "expand" ELSE "warned"
    /\ prior' = Session
    /\ UNCHANGED <<variations, response_json, tasks, results, raised, df, min_rating,
                   has_website, filtered_df, csv_bytes, outcome, session_results,
                   session_summary, snapshot, cache, now, net_calls, last_request,
                   smtp_calls, served_from>>

\* lines 86 and 88: the warning; the script goes on to line 176
Warn ==
    /\ pc = "warned"
    /\ outcome' = Validate(keyword, city, state, email)
    /\ pc' = "display"
    /\ UNCHANGED <<keyword, city, state, email, variations, response_json, tasks,
                   results, raised, df, min_rating, has_website, filtered_df, csv_bytes,
                   session_results, session_summary, snapshot, cache, now,
                   net_calls, last_request, smtp_calls, served_from, prior>>

\* lines 91-97
ExpandStep ==
    /\ pc = "expand"
    /\ variations' = Expand(keyword, city, state)
    /\ pc' = "fetch"
    /\ UNCHANGED <<keyword, city, state, email, response_json, tasks,
                   results, raised, df, min_rating, has_website, filtered_df, csv_bytes,
                   outcome, session_results, session_summary, snapshot, cache, now,
                   net_calls, last_request, smtp_calls, served_from, prior>>

\* line 99, a cache hit: the stored value is returned and the body does not run
FetchCached ==
    /\ pc = "fetch"
    /\ \E e \in Hits(variations, city, state) :
          response_json' = e.value
    /\ served_from' = "cache"
    /\ pc' = "check"
    /\ UNCHANGED <<keyword, city, state, email, variations, tasks,
                   results, raised, df, min_rating, has_website, filtered_df, csv_bytes,
                   outcome, session_results, session_summary, snapshot, cache, now,
                   net_calls, last_request, smtp_calls, prior>>

\* line 99, a cache miss: lines 50-65 run, and what they return is stored
FetchNetwork ==
    /\ pc = "fetch"
    /\ Hits(variations, city, state) = {}
    /\ \E r \in Responses :
          /\ response_json' = r
          /\ cache' = {e \in cache : e.key # CacheKey(variations, city, state)}
                       \cup {[key |-> CacheKey(variations, city, state), value |-> r,
                               at |-> now, args |-> <<variations, city, state>>]}
    /\ net_calls' = net_calls + 1
    /\ last_request' = batched_data(variations, city, state)
    /\ served_from' = "network"
    /\ pc' = "check"
    /\ UNCHANGED <<keyword, city, state, email, variations, tasks,
                   results, raised, df, min_rating, has_website, filtered_df, csv_bytes,
                   outcome, session_results, session_summary, snapshot, now,
                   smtp_calls, prior>>

\* lines 100-101
CheckResponse ==
    /\ pc = "check"
    /\ HasTasks(response_json)
    /\ tasks' = response_json.tasks.l
    /\ pc' = "format"
    /\ UNCHANGED <<keyword, city, state, email, variations, response_json,
                   results, raised, df, min_rating, has_website, filtered_df, csv_bytes,
                   outcome, session_results, session_summary, snapshot, cache, now,
                   net_calls, last_request, smtp_calls, served_from, prior>>

\* a bug: a failed fetch clears the stored results
ApiErrorClears ==
    /\ pc = "check"
    /\ ~HasTasks(response_json)
    /\ outcome' = "api_error"
    /\ session_results' = NoValue
    /\ session_summary' = NoValue
    /\ pc' = "display"
    /\ UNCHANGED <<keyword, city, state, email, variations, response_json, tasks,
                   results, raised, df, min_rating, has_website, filtered_df, csv_bytes,
                   snapshot, cache, now,
                   net_calls, last_request, smtp_calls, served_from, prior>>

\* lines 172-173
ApiError ==
    /\ pc = "check"
    /\ ~HasTasks(response_json)
    /\ outcome' = "api_error"
    /\ pc' = "display"
    /\ UNCHANGED <<keyword, city, state, email, variations, response_json, tasks,
                   results, raised, df, min_rating, has_website, filtered_df, csv_bytes,
                   session_results, session_summary, snapshot, cache, now,
                   net_calls, last_request, smtp_calls, served_from, prior>>

\* line 102
FormatStep ==
    /\ pc = "format"
    /\ results' = format_results(tasks, variations).rows
    /\ raised' = format_results(tasks, variations).err
    /\ pc' = "formatted"
    /\ UNCHANGED <<keyword, city, state, email, variations, response_json, tasks,
                   df, min_rating, has_website, filtered_df, csv_bytes,
                   outcome, session_results, session_summary, snapshot, cache, now,
                   net_calls, last_request, smtp_calls, served_from, prior>>

\* an exception out of line 102 ends the script run: nothing below it runs
Abort ==
    /\ pc = "formatted"
    /\ raised # "none"
    /\ outcome' = "exception"
    /\ pc' = "done"
    /\ UNCHANGED <<keyword, city, state, email, variations, response_json, tasks,
                   results, raised, df, min_rating, has_website, filtered_df, csv_bytes,
                   session_results, session_summary, snapshot, cache, now,
                   net_calls, last_request, smtp_calls, served_from, prior>>

\* lines 170-171
NoBusinesses ==
    /\ pc = "formatted"
    /\ raised = "none"
    /\ results = <<>>
    /\ outcome' = "empty"
    /\ pc' = "display"
    /\ UNCHANGED <<keyword, city, state, email, variations, response_json, tasks,
                   results, raised, df, min_rating, has_website, filtered_df, csv_bytes,
                   session_results, session_summary, snapshot, cache, now,
                   net_calls, last_request, smtp_calls, served_from, prior>>

\* a bug: the matches are counted per query
SummaryPerQuery(vs, table) == [queries |-> Len(vs), matches |-> Len(table) \div Len(vs)]

\* lines 108-111
Summary(vs, table) == [queries |-> Len(vs), matches |-> Len(table)]

\* lines 104-111
Store ==
    /\ pc = "formatted"
    /\ raised = "none"
    /\ results # <<>>
    /\ df' = DataFrame(results)
    /\ session_results' = Some(DataFrame(results))
    /\ session_summary' = Some(Summary(variations, DataFrame(results)))
    /\ pc' = "filter"
    /\ UNCHANGED <<keyword, city, state, email, variations, response_json, tasks,
                   results, raised, min_rating, has_website, filtered_df, csv_bytes,
                   outcome, snapshot, cache, now,
                   net_calls, last_request, smtp_calls, served_from, prior>>

\* lines 131-144: the widgets' values, the filtered view and its CSV
FilterWith(r, w) ==
    /\ pc = "filter"
    /\ min_rating' = r
    /\ has_website' = w
    /\ filtered_df' = Filter(df, r, w)
    /\ csv_bytes' = to_csv(Filter(df, r, w))
    /\ pc' = "email"
    /\ UNCHANGED <<keyword, city, state, email, variations, response_json, tasks,
                   results, raised, df, outcome, session_results, session_summary,
                   snapshot, cache, now, net_calls, last_request, smtp_calls,
                   served_from, prior>>

FilterStep == \E r \in {SliderDefault, SliderMax}, w \in BOOLEAN : FilterWith(r, w)

\* line 153: no address, nothing is sent
NoEmail ==
    /\ pc = "email"
    /\ email = <<>>
    /\ outcome' = "shown"
    /\ pc' = "display"
    /\ UNCHANGED <<keyword, city, state, email, variations, response_json, tasks,
                   results, raised, df, min_rating, has_website, filtered_df, csv_bytes,
                   session_results, session_summary, snapshot, cache, now,
                   net_calls, last_request, smtp_calls, served_from, prior>>

\* a bug: the failure is not caught, and the run ends there
SendEmailUncaught ==
    /\ pc = "email"
    /\ email # <<>>
    /\ smtp_calls' = smtp_calls + 1
    /\ \E o \in {"sent", "email_failed"} :
          /\ outcome' = o
          /\ raised' = IF o = "sent" THEN "none" ELSE "SMTPException"
          /\ pc' = IF o = "sent" THEN "display" ELSE "done"
    /\ UNCHANGED <<keyword, city, state, email, variations, response_json, tasks,
                   results, df, min_rating, has_website, filtered_df, csv_bytes,
                   session_results, session_summary, snapshot, cache, now,
                   net_calls, last_request, prior, served_from>>

\* lines 153-169: the submission succeeds ("sent") or raises and is caught
SendEmail ==
    /\ pc = "email"
    /\ email # <<>>
    /\ smtp_calls' = smtp_calls + 1
    /\ \E o \in {"sent", "email_failed"} : outcome' = o
    /\ pc' = "display"
    /\ UNCHANGED <<keyword, city, state, email, variations, response_json, tasks,
                   results, raised, df, min_rating, has_website, filtered_df, csv_bytes,
                   session_results, session_summary, snapshot, cache, now,
                   net_calls, last_request, prior, served_from>>

\* lines 176-181 read the summary whenever results is set
LastSnapshot(res, summary) ==
    IF res = NoValue THEN [err |-> "none", shown |-> NoValue]
    ELSE IF summary = NoValue THEN [err |-> "TypeError:summary", shown |-> NoValue]
    ELSE [err |-> "none",
          shown |-> Some([queries |-> summary[1].queries, matches |-> summary[1].matches,
                          table |-> res[1]])]

\* lines 176-181
Display ==
    /\ pc = "display"
    /\ snapshot' = LastSnapshot(session_results, session_summary).shown
    /\ raised' = LastSnapshot(session_results, session_summary).err
    /\ pc' = "done"
    /\ UNCHANGED <<keyword, city, state, email, variations, response_json, tasks,
                   results, df, min_rating, has_website, filtered_df, csv_bytes,
                   outcome, session_results, session_summary, cache, now,
                   net_calls, last_request, smtp_calls, served_from, prior>>

\* a rerun of the script without a submission (line 84 is false)
Rerun ==
    /\ pc = "idle"
    /\ outcome' = "no_submit"
    /\ prior' = Session
    /\ pc' = "display"
    /\ UNCHANGED <<keyword, city, state, email, variations, response_json, tasks,
                   results, raised, df, min_rating, has_website, filtered_df, csv_bytes,
                   session_results, session_summary, snapshot, cache, now,
                   net_calls, last_request, smtp_calls, served_from>>

\* the script run is over: the session and the cache are what is left of it
Finish ==
    /\ pc = "done"
    /\ Unbound
    /\ pc' = "idle"
    /\ UNCHANGED <<session_results, session_summary, cache, now>>

\* time passes between runs
Tick ==
    /\ pc = "idle"
    /\ now < MaxTicks * TickSeconds
    /\ now' = now + TickSeconds
    /\ UNCHANGED <<pc, keyword, city, state, email, variations, response_json, tasks,
                   results, raised, df, min_rating, has_website, filtered_df, csv_bytes,
                   outcome, session_results, session_summary, snapshot, cache,
                   net_calls, last_request, smtp_calls, served_from, prior>>

Next ==
    \/ Submit \/ Warn \/ ExpandStep \/ FetchCached \/ FetchNetwork
    \/ CheckResponse \/ ApiError \/ FormatStep \/ Abort \/ NoBusinesses
    \/ Store \/ FilterStep \/ NoEmail \/ SendEmail \/ Display \/ Rerun \/ Finish \/ Tick

Spec == Init /\ [][Next]_vars

----------------------------------------------------------------------------
(* The query expansion on its own: every non-empty keyword, city and state *)
(* of up to MaxLen characters, at line 91                                  *)

MaxLen == 2

FormChars == {"p", "P", " "}

FormTexts == SeqsUpTo(FormChars, MaxLen) \ {<<>>}

InitExpand ==
    /\ pc = "expand"
    /\ keyword \in FormTexts /\ city \in FormTexts /\ state \in FormTexts
    /\ email = <<>>
    /\ variations = <<>>
    /\ tasks = <<>>
    /\ NoTable
    /\ NoRunYet

SpecExpand == InitExpand /\ [][ExpandStep]_vars

----------------------------------------------------------------------------
(* format_results on its own, at line 102 *)

MaxTasks == 3
MaxItems == 2
MaxVariations == 2

QueryNames == [i \in 1..(MaxVariations + 1) |-> <<"q", Digits[i + 1]>>]

\* well-formed tasks: every result holds an item list
PlainTasks == {TaskOf(items) : items \in SeqsUpTo({ItemFull, ItemLow}, MaxItems)}

\* tasks and variations of any lengths
InitNormalize ==
    /\ pc = "format"
    /\ keyword = <<"q">> /\ city = <<"L">> /\ state = <<"C">> /\ email = <<>>
    /\ \E n \in 0..MaxVariations : variations = SubSeq(QueryNames, 1, n)
    /\ tasks \in SeqsUpTo(PlainTasks, MaxTasks)
    /\ NoTable
    /\ NoRunYet

SpecNormalize == InitNormalize /\ [][FormatStep]_vars

\* a field that is missing, null or there
Opt(v) == {Absent, None, v}

Items ==
    { Item(title, address_info, phone_number, site_links, rating, reviews_count) :
        title \in Opt(Str(<<"A">>)),
        address_info \in {Absent, None} \cup {AddressInfo(v) : v \in Opt(Str(<<"1">>))},
        phone_number \in Opt(Str(<<"5">>)),
        site_links \in {Absent, None, List(<<>>), List(<<Str(<<"w">>), Str(<<"v">>)>>)}
                        \cup {SiteLinks(v) : v \in Opt(Str(<<"w">>)) \cup {Str(<<>>)}},
        rating \in Opt(Num(45)) \cup {Str(<<"4", ".", "5">>)},
        reviews_count \in Opt(Num(12)) }

\* a task with no result, a null or empty one, or one with no item list or a null one
BareTasks ==
    { [result |-> Absent], [result |-> None], [result |-> List(<<>>)],
      [result |-> List(<<[t |-> "dict", items |-> Absent]>>)],
      [result |-> List(<<[t |-> "dict", items |-> None]>>)],
      TaskOf(<<>>) }

\* the five variations of keyword "q", city "L", state "C"; tasks with missing data
InitMissing ==
    /\ pc = "format"
    /\ keyword = <<"q">> /\ city = <<"L">> /\ state = <<"C">> /\ email = <<>>
    /\ variations = Expand(<<"q">>, <<"L">>, <<"C">>)
    /\ tasks \in {<<t>> : t \in BareTasks}
                 \cup {<<TaskOf(<<i>>)>> : i \in Items}
                 \cup {<<t, TaskOf(<<ItemBare, ItemFull>>)>> : t \in BareTasks}
    /\ NoTable
    /\ NoRunYet

SpecMissing == InitMissing /\ [][FormatStep]_vars

----------------------------------------------------------------------------
(* The filter on its own, at line 131: every table of up to MaxRows rows   *)
(* and every position of the slider                                       *)

MaxRows == 2

TableRows ==
    { [Query |-> <<"q">>, BusinessName |-> None, Address |-> None, Phone |-> None,
       Website |-> website, Rating |-> rating, TotalReviews |-> None] :
        website \in {None, Str(<<>>), Str(<<"w">>)},
        rating \in {NaN, Num(29), Num(40), Num(45)} }

InitFilter ==
    /\ pc = "filter"
    /\ keyword = <<"q">> /\ city = <<"L">> /\ state = <<"C">> /\ email = <<>>
    /\ variations = Expand(<<"q">>, <<"L">>, <<"C">>)
    /\ tasks = <<>>
    /\ results = <<>>
    /\ df \in SeqsUpTo(TableRows, MaxRows) \ {<<>>}
    /\ min_rating = SliderDefault
    /\ has_website = FALSE
    /\ filtered_df = <<>>
    /\ csv_bytes = <<>>
    /\ NoRunYet

FilterAny == \E r \in SliderMin..SliderMax, w \in BOOLEAN : FilterWith(r, w)

SpecFilter == InitFilter /\ [][FilterAny]_vars

----------------------------------------------------------------------------
(* Claims *)

Min(a, b) == IF a < b THEN a ELSE b

\* C1: for every non-empty keyword, city and state the expansion is exactly
\* the five strings keyword, keyword + " near me", keyword + " " + city,
\* keyword + " " + state, keyword + " " + city + " " + state, in this order,
\* with nothing trimmed, re-cased or merged.
C1_FiveVariations ==
    pc = "fetch" =>
        /\ Len(variations) = 5
        /\ variations[1] = keyword
        /\ variations[2] = Concat(<<keyword, <<" ", "n", "e", "a", "r", " ", "m", "e">>>>)
        /\ variations[3] = Concat(<<keyword, <<" ">>, city>>)
        /\ variations[4] = Concat(<<keyword, <<" ">>, state>>)
        /\ variations[5] = Concat(<<keyword, <<" ">>, city, <<" ">>, state>>)

\* an expansion of a keyword that ends in a blank, with city and state equal
C1_Witness ==
    /\ pc = "fetch"
    /\ keyword[Len(keyword)] = " "
    /\ city = state
    /\ variations[3] = variations[4]

\* the items of a task that holds an item list
ListedItems(task) ==
    IF /\ task.result.t = "list" /\ task.result.l # <<>> /\ task.result.l[1].t = "dict"
       /\ task.result.l[1].items.t = "list"
    THEN task.result.l[1].items.l
    ELSE <<>>

\* the queries of the rows the first m tasks should give: variations[i], once per item
PairedQueries(m) ==
    Concat([i \in 1..m |-> [j \in 1..Len(ListedItems(tasks[i])) |-> variations[i]]])

PairedTitles(m) ==
    Concat([i \in 1..m |-> [j \in 1..Len(ListedItems(tasks[i])) |-> Get(ListedItems(tasks[i])[j].title)]])

\* C2: for task and variation sequences of any lengths format_results ends
\* without an index error, handles the first min(len(tasks), len(variations))
\* tasks, and returns one row per item of those tasks, in task then item
\* order, each with Query = variations[i] of its task.
C2_BoundedPairing ==
    pc = "formatted" =>
        /\ raised = "none"
        /\ Len(results) = Len(PairedQueries(Min(Len(tasks), Len(variations))))
        /\ [k \in 1..Len(results) |-> results[k].Query]
             = PairedQueries(Min(Len(tasks), Len(variations)))
        /\ [k \in 1..Len(results) |-> results[k].BusinessName]
             = PairedTitles(Min(Len(tasks), Len(variations)))

AllItems == Concat([i \in 1..Len(tasks) |-> ListedItems(tasks[i])])

IsMissing(v) == v.t = "absent" \/ v.t = "null"

\* C3: format_results never raises on missing data: a task without a result
\* or an item list gives no rows, and every item gives exactly one row, with
\* Query set and a null cell for every field that is absent or null.
C3_MissingDataTolerated ==
    pc = "formatted" =>
        /\ raised = "none"
        /\ Len(results) = Len(AllItems)
        /\ \A k \in 1..Len(results) :
              /\ results[k].Query \in {variations[i] : i \in 1..Len(variations)}
              /\ IsMissing(AllItems[k].title) => results[k].BusinessName = None
              /\ IsMissing(AllItems[k].address_info) => results[k].Address = None
              /\ IsMissing(AllItems[k].phone_number) => results[k].Phone = None
              /\ IsMissing(AllItems[k].site_links) => results[k].Website = None
              /\ IsMissing(AllItems[k].rating) => results[k].Rating = None
              /\ IsMissing(AllItems[k].reviews_count) => results[k].TotalReviews = None

\* the entries of an item's site links
SiteLinkEntries(item) ==
    IF item.site_links.t = "list" THEN item.site_links.l
    ELSE IF item.site_links.t = "dict" /\ ~IsMissing(item.site_links.site_link)
         THEN <<item.site_links.site_link>>
         ELSE <<>>

\* C4: the Website cell of an item's row is the first of its site links when
\* there is at least one, and null when there is none or no site-links
\* structure; the extraction never fails the row.
C4_FirstSiteLink ==
    pc = "formatted" =>
        /\ raised # "AttributeError:site_links"
        /\ raised = "none" =>
              \A k \in 1..Len(results) :
                  results[k].Website = IF SiteLinkEntries(AllItems[k]) = <<>> THEN None
                                       ELSE SiteLinkEntries(AllItems[k])[1]

\* a row the criteria keep: its Rating is there and at least r and, when w,
\* its Website is there and not the empty string
Kept(row, r, w) ==
    /\ row.Rating.t = "num" /\ row.Rating.n >= r
    /\ w => (row.Website.t = "str" /\ row.Website.s # <<>>)

RECURSIVE RowsKept(_, _, _)
RowsKept(table, r, w) ==
    IF table = <<>> THEN <<>>
    ELSE (IF Kept(Head(table), r, w) THEN <<Head(table)>> ELSE <<>>) \o RowsKept(Tail(table), r, w)

\* C5: the filtered view is exactly the rows of the table, in order, whose
\* Rating is present and >= r and, when w, whose Website is present and not
\* ""; rows without a Rating are never in it, and the view for a larger r is
\* within the view for a smaller r.
C5_FilteredView ==
    pc = "email" =>
        /\ filtered_df = RowsKept(df, min_rating, has_website)
        /\ \A k \in 1..Len(filtered_df) : filtered_df[k].Rating # NaN
        /\ \A r \in SliderMin..min_rating :
              \A k \in 1..Len(filtered_df) :
                  \E j \in 1..Len(Filter(df, r, has_website)) :
                      Filter(df, r, has_website)[j] = filtered_df[k]

\* under {4.0, true}: a row with Rating 4.5 and Website "" and a row without
\* a Rating are left out, and a row is kept
C5_Witness ==
    /\ pc = "email" /\ min_rating = 40 /\ has_website
    /\ \E k \in 1..Len(df) : df[k].Rating = Num(45) /\ df[k].Website = Str(<<>>)
    /\ Len(filtered_df) = 1
    /\ Len(df) = 2

\* what the session showed when the run began
PriorSnapshot ==
    IF prior[1] = NoValue THEN NoValue
    ELSE Some([queries |-> prior[2][1].queries, matches |-> prior[2][1].matches,
               table |-> prior[1][1]])

\* C6: a run that ends in a validation warning, an API error or an empty
\* result leaves the stored results and summary as they were, and they are
\* what is shown again; only a run that got at least one row overwrites
\* them, with its own table and counts.
C6_StoredResultsKept ==
    /\ (pc = "done" /\ outcome \in {"warn_fields", "warn_email", "api_error", "empty"}) =>
          /\ Session = prior
          /\ snapshot = PriorSnapshot
    /\ (pc # "idle" /\ Session # prior) =>
          /\ results # <<>> /\ raised = "none" /\ HasTasks(response_json)
          /\ outcome \in {"none", "shown", "sent", "email_failed"}
    /\ (pc = "done" /\ outcome \in {"shown", "sent", "email_failed"}) =>
          /\ Len(results) >= 1
          /\ session_results = Some(df)
          /\ Len(df) = Len(results)
          /\ session_summary = Some([queries |-> Len(variations), matches |-> Len(results)])

\* a failed fetch after a run that stored a table
C6_Witness ==
    /\ pc = "done" /\ outcome = "api_error"
    /\ prior[1] # NoValue
    /\ snapshot # NoValue

\* the addresses of Emails that are not of the form local@domain.tld
MalformedEmails == {<<"a", "@", "b">>, <<"a", "@", ".", "c">>}

Rejected ==
    \/ keyword = <<>> \/ city = <<>> \/ state = <<>>
    \/ email \in MalformedEmails

\* C7: a submission with an empty keyword, city or state, or with a
\* malformed address, ends in a warning: no listings request and no SMTP
\* submission is made in that run and the session is left as it was; a
\* remote call is made only in a run whose inputs passed.
C7_ValidationFirst ==
    /\ (pc \notin {"idle"} /\ outcome # "no_submit" /\ Rejected) =>
          /\ pc \in {"warned", "display", "done"}
          /\ net_calls = 0 /\ smtp_calls = 0 /\ served_from = "none"
          /\ Session = prior
          /\ pc = "done" => outcome \in {"warn_fields", "warn_email"}
    /\ (net_calls > 0 \/ smtp_calls > 0 \/ served_from # "none") =>
          /\ ~Rejected
          /\ outcome \notin {"warn_fields", "warn_email"}

\* a malformed address, refused in a session that holds results
C7_Witness ==
    /\ pc = "done" /\ outcome = "warn_email"
    /\ keyword # <<>> /\ city # <<>> /\ state # <<>>
    /\ session_results # NoValue

\* C8: an SMTP submission is attempted only with a non-empty table and a
\* non-empty address, after the table was stored and the CSV of the filtered
\* view was made; the step leaves the stored results, the summary and the
\* CSV as they were and, failed or not, the run goes on to its end.
C8_EmailIsolated ==
    /\ [](smtp_calls > 0 =>
            /\ email # <<>> /\ Len(df) >= 1
            /\ session_results = Some(df)
            /\ session_summary # NoValue
            /\ Len(csv_bytes) = Len(filtered_df) + 1
            /\ \A k \in 1..Len(filtered_df) : csv_bytes[k + 1][1] = filtered_df[k].Query
            /\ smtp_calls = 1
            /\ raised = "none"
            /\ pc \in {"display", "done"})
    /\ [][pc = "email" =>
            /\ UNCHANGED <<session_results, session_summary, csv_bytes, df, filtered_df>>
            /\ pc' = "display"]_vars

\* a failed submission, of the CSV of an empty filtered view
C8_Witness ==
    /\ pc = "done" /\ outcome = "email_failed"
    /\ smtp_calls = 1
    /\ filtered_df = <<>> /\ Len(df) >= 1
    /\ snapshot # NoValue

\* C9: the response a run consumes comes from the one request this run
\* posted for its own (variations, city, state), or from the cache, stored
\* there for the same tuple no more than an hour before; a run posts at most
\* one listings request.
C9_CacheByTuple ==
    /\ net_calls <= 1
    /\ served_from = "network" =>
          /\ net_calls = 1
          /\ Len(last_request) = Len(variations)
          /\ \A i \in 1..Len(last_request) :
                /\ last_request[i].keyword = variations[i]
                /\ last_request[i].location_name
                     = Concat(<<city, <<",", " ">>, state,
                                <<",", " ", "U", "n", "i", "t", "e", "d", " ", "S", "t", "a", "t", "e", "s">>>>)
          /\ \E e \in cache :
                e.args = <<variations, city, state>> /\ e.value = response_json /\ e.at = now
    /\ served_from = "cache" =>
          /\ net_calls = 0
          /\ \E e \in cache :
                /\ e.args = <<variations, city, state>>
                /\ e.value = response_json
                /\ 0 <= now - e.at /\ now - e.at <= 3600

\* a cached response served while the cache also holds another tuple's
C9_Witness ==
    /\ served_from = "cache"
    /\ \E e \in cache : e.args = <<variations, city, state>> /\ now > e.at
    /\ \E e \in cache : e.args # <<variations, city, state>> /\ e.value # response_json

\* C10: the stored results and summary are both unset or both set; when set,
\* matches is the number of rows of the stored table, at least 1, and
\* queries is 5; the last-snapshot block never reads an unset summary.
C10_SummaryMatchesResults ==
    /\ session_results = NoValue <=> session_summary = NoValue
    /\ session_results # NoValue =>
          /\ session_summary[1].matches = Len(session_results[1])
          /\ session_summary[1].matches >= 1
          /\ session_summary[1].queries = 5
    /\ raised # "TypeError:summary"
    /\ (pc = "done" /\ outcome # "exception" /\ session_results # NoValue) =>
          /\ snapshot # NoValue
          /\ snapshot[1].matches = Len(snapshot[1].table)

\* the snapshot of a table of two rows, shown again after an empty result
C10_Witness ==
    /\ pc = "done" /\ outcome = "empty"
    /\ snapshot # NoValue
    /\ snapshot[1].matches = 2

====
